---- MODULE Spec2Model ----
(***************************************************************************)
(* workspace-updater (src/src/index.ts): audits the catalog of a           *)
(* pnpm-workspace.yaml against the npm registry and optionally rewrites    *)
(* it.  Strings are modelled as sequences of one-character strings, so     *)
(* normalisation, validation and prefix handling are computed character    *)
(* by character as the code and the semver library compute them.           *)
(***************************************************************************)
EXTENDS Integers, Sequences, FiniteSets, TLC

(***************************************************************************)
(* Characters and strings                                                  *)
(***************************************************************************)
Digits == {"0", "1", "2", "3", "4", "5", "6", "7", "8", "9"}

Letters == {"a", "b", "c", "r"}

\* a catalog value that is not a string: YAML null (`name:` with no value)
Null == <<"null">>

DigitVal(c) ==
  CASE c = "0" -> 0 [] c = "1" -> 1 [] c = "2" -> 2 [] c = "3" -> 3
    [] c = "4" -> 4 [] c = "5" -> 5 [] c = "6" -> 6 [] c = "7" -> 7
    [] c = "8" -> 8 [] c = "9" -> 9

CharRank(c) ==
  CASE c = "-" -> 0 [] c \in Digits -> 1 + DigitVal(c)
    [] c = "a" -> 11 [] c = "b" -> 12 [] c = "c" -> 13 [] c = "r" -> 14

Chars(s) == {s[k] : k \in 1..Len(s)}

IndexOf(s, c) ==
  IF c \in Chars(s)
    THEN CHOOSE k \in 1..Len(s) : s[k] = c /\ \A j \in 1..(k - 1) : s[j] # c
    ELSE 0

RECURSIVE Split(_, _)
Split(s, sep) ==
  LET k == IndexOf(s, sep)
  IN  IF k = 0 THEN <<s>>
      ELSE <<SubSeq(s, 1, k - 1)>> \o Split(SubSeq(s, k + 1, Len(s)), sep)

RECURSIVE NumVal(_)
NumVal(s) ==
  IF s = <<>> THEN 0
  ELSE 10 * NumVal(SubSeq(s, 1, Len(s) - 1)) + DigitVal(s[Len(s)])

startsWith(s, c) == Len(s) > 0 /\ s[1] = c

(***************************************************************************)
(* semver: valid, prerelease, gt, diff (strict parsing)                    *)
(***************************************************************************)
\* NUMERICIDENTIFIER: 0|[1-9]\d*
IsNumericId(s) ==
  /\ Len(s) > 0
  /\ Chars(s) \subseteq Digits
  /\ (Len(s) > 1 => s[1] # "0")

\* PRERELEASEIDENTIFIER: a numeric identifier or [0-9A-Za-z-]* with a non-digit
IsPrereleaseId(s) ==
  /\ Len(s) > 0
  /\ Chars(s) \subseteq Digits \cup Letters \cup {"-"}
  /\ (Chars(s) \subseteq Digits => IsNumericId(s))

NoVersion == [ok |-> FALSE, major |-> 0, minor |-> 0, patch |-> 0, prerelease |-> <<>>]

\* new SemVer(s): MAINVERSION ("-" PRERELEASE)?, anchored at both ends
parse(s) ==
  LET d    == IndexOf(s, "-")
      main == IF d = 0 THEN s ELSE SubSeq(s, 1, d - 1)
      pre  == IF d = 0 THEN <<>> ELSE Split(SubSeq(s, d + 1, Len(s)), ".")
      xyz  == Split(main, ".")
  IN  IF /\ s # Null
         /\ Len(xyz) = 3
         /\ \A k \in 1..3 : IsNumericId(xyz[k])
         /\ \A k \in 1..Len(pre) : IsPrereleaseId(pre[k])
      THEN [ok |-> TRUE, major |-> NumVal(xyz[1]), minor |-> NumVal(xyz[2]),
            patch |-> NumVal(xyz[3]), prerelease |-> pre]
      ELSE NoVersion

valid(s) == parse(s).ok

\* truthy exactly when s parses and carries pre-release identifiers
prerelease(s) == LET v == parse(s) IN v.ok /\ v.prerelease # <<>>

Sign(n) == IF n > 0 THEN 1 ELSE IF n < 0 THEN -1 ELSE 0

RECURSIVE CompareChars(_, _)
CompareChars(a, b) ==
  IF a = <<>> \/ b = <<>> THEN Sign(Len(a) - Len(b))
  ELSE IF a[1] # b[1] THEN Sign(CharRank(a[1]) - CharRank(b[1]))
  ELSE CompareChars(Tail(a), Tail(b))

compareIdentifiers(a, b) ==
  LET anum == Chars(a) \subseteq Digits
      bnum == Chars(b) \subseteq Digits
  IN  IF anum /\ bnum THEN Sign(NumVal(a) - NumVal(b))
      ELSE IF anum THEN -1
      ELSE IF bnum THEN 1
      ELSE CompareChars(a, b)

RECURSIVE comparePre(_, _)
comparePre(p, q) ==
  IF p = <<>> /\ q = <<>> THEN 0
  ELSE IF q = <<>> THEN 1
  ELSE IF p = <<>> THEN -1
  ELSE IF compareIdentifiers(p[1], q[1]) # 0 THEN compareIdentifiers(p[1], q[1])
  ELSE comparePre(Tail(p), Tail(q))

compare(v, w) ==
  IF v.major # w.major THEN Sign(v.major - w.major)
  ELSE IF v.minor # w.minor THEN Sign(v.minor - w.minor)
  ELSE IF v.patch # w.patch THEN Sign(v.patch - w.patch)
  ELSE IF v.prerelease # <<>> /\ w.prerelease = <<>> THEN -1
  ELSE IF v.prerelease = <<>> /\ w.prerelease # <<>> THEN 1
  ELSE comparePre(v.prerelease, w.prerelease)

gt(a, b) == compare(parse(a), parse(b)) > 0

\* release-type difference of two valid versions; "none" when they are equal
diff(a, b) ==
  LET v    == parse(a)
      w    == parse(b)
      c    == compare(v, w)
      high == IF c > 0 THEN v ELSE w
      low  == IF c > 0 THEN w ELSE v
      pre  == high.prerelease # <<>>
  IN  IF c = 0 THEN "none"
      ELSE IF low.prerelease # <<>> /\ ~pre /\ low.patch = 0 /\ low.minor = 0
        THEN "major"
      ELSE IF low.prerelease # <<>> /\ ~pre /\ low.major = high.major
              /\ low.minor = high.minor /\ low.patch = high.patch
        THEN IF low.minor # 0 /\ low.patch = 0 THEN "minor" ELSE "patch"
      ELSE IF v.major # w.major THEN IF pre THEN "premajor" ELSE "major"
      ELSE IF v.minor # w.minor THEN IF pre THEN "preminor" ELSE "minor"
      ELSE IF v.patch # w.patch THEN IF pre THEN "prepatch" ELSE "patch"
      ELSE "prerelease"

(***************************************************************************)
(* Inputs: command lines, manifests on disk, registry answers              *)
(***************************************************************************)
\* the longest catalog drawn as an input
MaxDeps == 2

DepNames == <<"left-pad", "foo", "bar", "baz">>

V100 == <<"1", ".", "0", ".", "0">>

V100b == <<"1", ".", "0", ".", "0", "-", "b">>

V101 == <<"1", ".", "0", ".", "1">>

V110 == <<"1", ".", "1", ".", "0">>

V200 == <<"2", ".", "0", ".", "0">>

V200b == <<"2", ".", "0", ".", "0", "-", "b">>

\* catalog values: null, plain, caret, tilde, pre-release with and without a
\* range prefix, and a pre-release whose normal form is no version
CatalogValues ==
  { Null, V101, <<"^">> \o V100, <<"~">> \o V100,
    V100b, <<"^">> \o V100b, <<"^">> \o V100b \o <<".", "1">> }

\* what dist-tags.latest may hold: for 1.0.1 no change, a minor, a major and a
\* premajor change; for 1.0.0 a patch, a minor, a major and a premajor change
Latests == {V101, V110, V200, V200b}

\* the outcome of one registry request
Answers ==
  [kind : {"ok"}, latest : Latests]
    \cup {[kind |-> "notok", latest |-> <<>>], [kind |-> "error", latest |-> <<>>]}

Catalogs ==
  UNION { { [k \in 1..n |-> [name |-> DepNames[k], version |-> f[k]]] :
              f \in [1..n -> CatalogValues] } : n \in 0..MaxDeps }

\* a manifest text: malformed YAML, a document without catalog, or with one
NoText == [malformed |-> FALSE, hasCatalog |-> FALSE, catalog |-> <<>>]

Texts ==
  {[malformed |-> TRUE, hasCatalog |-> FALSE, catalog |-> <<>>], NoText}
    \cup {[malformed |-> FALSE, hasCatalog |-> TRUE, catalog |-> c] : c \in Catalogs}

searchPaths ==
  <<"./pnpm-workspace.yaml", "../pnpm-workspace.yaml", "../../pnpm-workspace.yaml">>

ReleaseFlags == {"--patch", "--minor", "--major"}

(***************************************************************************)
(* State                                                                   *)
(***************************************************************************)
VARIABLES
  argv,               \* the set of command-line words (line 29)
  workspaceFilePath,  \* the word after -w, "" when absent (lines 37-42)
  disk,               \* the one manifest on disk: [path, text]; path "" = no file
  pc,                 \* where the run stands
  pnpmWorkspacePath,  \* the path the Locator resolved (line 95)
  doc,                \* the parsed document, mutated in place (line 118)
  dependencies,       \* Object.entries(catalog) as read (line 121)
  results,            \* one promise per dependency (line 124)
  registry,           \* what the registry has answered, per name
  report,             \* the report lines printed so far (lines 153-188)
  writes,             \* calls of Bun.write in this run (line 184)
  error,              \* the error the run ended with, if any
  overtaken,          \* history: a lookup completed before one dispatched earlier
  run                 \* "first", or "second" on the manifest the first has written

vars ==
  <<argv, workspaceFilePath, disk, pc, pnpmWorkspacePath, doc, dependencies,
    results, registry, report, writes, error, overtaken, run>>

shouldUpdate == "--update" \in argv

updatePatch == "--patch" \in argv

updateMinor == "--minor" \in argv

updateMajor == "--major" \in argv

showHelp == "--help" \in argv \/ "-h" \in argv

(***************************************************************************)
(* Locator, Parser                                                         *)
(***************************************************************************)
exists(path) == disk.path # "" /\ disk.path = path

\* the first search path that exists, "" when none does
findPnpmWorkspaceFile ==
  IF \E k \in 1..Len(searchPaths) : exists(searchPaths[k])
    THEN searchPaths[CHOOSE k \in 1..Len(searchPaths) :
                       /\ exists(searchPaths[k])
                       /\ \A j \in 1..(k - 1) : ~exists(searchPaths[j])]
    ELSE ""

NoDoc == [hasCatalog |-> FALSE, catalog |-> <<>>]

yamlLoad(text) == [hasCatalog |-> text.hasCatalog, catalog |-> text.catalog]

yamlDump(d) == [malformed |-> FALSE, hasCatalog |-> d.hasCatalog, catalog |-> d.catalog]

\* doc.catalog || {}
catalogOf(d) == IF d.hasCatalog THEN d.catalog ELSE <<>>

(***************************************************************************)
(* Version Fetcher, Classifier                                             *)
(***************************************************************************)
\* version?.replace(/[^\d.]/g, '') || ''
cleanVersion(version) ==
  IF version = Null THEN <<>>
  ELSE SelectSeq(version, LAMBDA c : c \in Digits \cup {"."})

\* the callback returns null before any request is made
Skipped(version) ==
  version = Null \/ prerelease(version) \/ ~valid(cleanVersion(version))

getLatestVersionThrows(answer) ==
  [threw |-> answer.kind = "error",
   value |-> IF answer.kind = "ok" THEN <<answer.latest>> ELSE <<>>]

\* the latest version, or null (the empty option) on a failed request
getLatestVersion(answer) ==
  [threw |-> FALSE,
   value |-> IF answer.kind = "ok" THEN <<answer.latest>> ELSE <<>>]

ClassifyNotOlder(name, version, latestVersion) ==
  IF latestVersion # <<>> /\ ~gt(cleanVersion(version), latestVersion[1])
    THEN <<[name |-> name, current |-> version, latest |-> latestVersion[1],
            type |-> diff(cleanVersion(version), latestVersion[1])]>>
    ELSE <<>>

\* the rest of the callback once getLatestVersion has returned
Classify(name, version, latestVersion) ==
  IF latestVersion # <<>> /\ gt(latestVersion[1], cleanVersion(version))
    THEN <<[name |-> name, current |-> version, latest |-> latestVersion[1],
            type |-> diff(cleanVersion(version), latestVersion[1])]>>
    ELSE <<>>

Pending == [status |-> "pending", value |-> <<>>]

Fulfilled(v) == [status |-> "fulfilled", value |-> v]

Rejected == [status |-> "rejected", value |-> <<>>]

\* dependencies.map(async ...): every callback runs to its first await
Dispatch(catalog) ==
  [k \in 1..Len(catalog) |->
     IF Skipped(catalog[k].version) THEN Fulfilled(<<>>) ELSE Pending]

Settle(entry, answer) ==
  LET r == getLatestVersion(answer)
  IN  IF r.threw THEN Rejected
      ELSE Fulfilled(Classify(entry.name, entry.version, r.value))

StoreResultInArrivalOrder(rs, i, r) ==
  [rs EXCEPT ![CHOOSE k \in 1..Len(rs) :
                 /\ rs[k].status = "pending"
                 /\ \A j \in 1..(k - 1) : rs[j].status # "pending"] = r]

\* each promise owns the slot of its dependency
StoreResult(rs, i, r) == [rs EXCEPT ![i] = r]

AllSettled(rs) == \A k \in 1..Len(rs) : rs[k].status # "pending"

AnyRejected(rs) == \E k \in 1..Len(rs) : rs[k].status = "rejected"

PromiseAnyDone(rs) == rs = <<>> \/ \E k \in 1..Len(rs) : rs[k].status # "pending"

\* Promise.all resolves when all have, and rejects as soon as one has
PromiseAllDone(rs) == AllSettled(rs) \/ AnyRejected(rs)

RECURSIVE Flatten(_)
Flatten(rs) ==
  IF rs = <<>> THEN <<>> ELSE Head(rs).value \o Flatten(Tail(rs))

\* results.filter(result => result !== null)
Outdated(rs) == Flatten(rs)

(***************************************************************************)
(* Reporter                                                                *)
(***************************************************************************)
CanonicalTypes ==
  {"major", "minor", "patch", "premajor", "preminor", "prepatch", "prerelease"}

\* grouped[t] for a canonical t, and grouped.other (lines 141-151)
grouped(outdated, t) ==
  IF t = "other"
    THEN SelectSeq(outdated, LAMBDA d : d.type # "none" /\ d.type \notin CanonicalTypes)
    ELSE SelectSeq(outdated, LAMBDA d : d.type = t)

Line(kind, bucket, dep) ==
  [kind |-> kind, bucket |-> bucket, name |-> dep.name, current |-> dep.current,
   latest |-> dep.latest]

NoDep == [name |-> "", current |-> <<>>, latest |-> <<>>]

\* the heading of a bucket and one `name: current -> latest` line per entry
Section(outdated, t) ==
  LET g == grouped(outdated, t)
  IN  IF Len(g) > 0
        THEN <<Line("header", t, NoDep)>> \o [k \in 1..Len(g) |-> Line("entry", t, g[k])]
        ELSE <<>>

\* lines 153-165 and 188
Printed(outdated) ==
  IF Len(outdated) > 0
    THEN <<Line("found", "", NoDep)>> \o Section(outdated, "major")
           \o Section(outdated, "minor") \o Section(outdated, "patch")
    ELSE <<Line("uptodate", "", NoDep)>>

(***************************************************************************)
(* Updater                                                                 *)
(***************************************************************************)
WritesManifestWhenUpToDate(outdated) == shouldUpdate

\* Bun.write is reached only inside both conditions (lines 140, 167)
WritesManifest(outdated) == Len(outdated) > 0 /\ shouldUpdate

toUpdateByPrefix(outdated) ==
  IF updatePatch \/ updateMinor \/ updateMajor
    THEN SelectSeq(outdated, LAMBDA dep :
           \/ updatePatch /\ dep.type \in {"patch", "prepatch"}
           \/ updateMinor /\ dep.type \in {"minor", "preminor"}
           \/ updateMajor /\ dep.type \in {"major", "premajor"})
    ELSE outdated

\* lines 169-176
toUpdate(outdated) ==
  IF updatePatch \/ updateMinor \/ updateMajor
    THEN SelectSeq(outdated, LAMBDA dep :
           \/ updatePatch /\ dep.type = "patch"
           \/ updateMinor /\ dep.type = "minor"
           \/ updateMajor /\ dep.type = "major")
    ELSE outdated

\* current.startsWith('^') ? `^${latest}` : latest
NewValue(current, latest) ==
  IF startsWith(current, "^") THEN <<"^">> \o latest ELSE latest

\* catalog[name] is truthy: the key exists and holds a non-empty string
Truthy(catalog, name) ==
  \E k \in 1..Len(catalog) :
    catalog[k].name = name /\ catalog[k].version \notin {Null, <<>>}

Assign(catalog, name, value) ==
  [k \in 1..Len(catalog) |->
     IF catalog[k].name = name THEN [catalog[k] EXCEPT !.version = value]
     ELSE catalog[k]]

RECURSIVE ApplyUpdatesRebuilding(_, _)
ApplyUpdatesRebuilding(catalog, deps) ==
  IF deps = <<>> THEN <<>>
  ELSE <<[name |-> Head(deps).name,
          version |-> NewValue(Head(deps).current, Head(deps).latest)]>>
         \o ApplyUpdatesRebuilding(catalog, Tail(deps))

\* toUpdate.forEach(...) of lines 178-182
RECURSIVE ApplyUpdates(_, _)
ApplyUpdates(catalog, deps) ==
  IF deps = <<>> THEN catalog
  ELSE ApplyUpdates(
         IF Truthy(catalog, Head(deps).name)
           THEN Assign(catalog, Head(deps).name,
                       NewValue(Head(deps).current, Head(deps).latest))
           ELSE catalog,
         Tail(deps))

(***************************************************************************)
(* The run                                                                 *)
(***************************************************************************)
Manifests ==
  [path : {searchPaths[1]}, text : Texts]
    \cup [path : {"", searchPaths[3], "custom.yaml"}, text : {NoText}]

\* audit only (with and without a filter), --update, and the help flags
CommandLines ==
  {{}, {"--minor"}, {"--update"}, {"--help"}, {"-h"}, {"--help", "--update"}}

\* --update without filter, with each single filter and with two combined;
\* a filter without --update; help
FilterCommandLines ==
  { {"--update"} \cup f : f \in {{}, {"--patch"}, {"--minor"}, {"--major"},
                                   {"--minor", "--patch"}} }
    \cup {{"--minor"}, {"--help"}}

InitWith(commandLines) ==
  /\ argv \in commandLines
  /\ disk \in Manifests
  /\ workspaceFilePath \in
       IF disk.text = NoText /\ argv = {} THEN {"", "custom.yaml"} ELSE {""}
  /\ pc = "start"
  /\ pnpmWorkspacePath = ""
  /\ doc = NoDoc
  /\ dependencies = <<>>
  /\ results = <<>>
  /\ overtaken = FALSE
  /\ registry = [k \in 1..Len(DepNames) |-> <<>>]
  /\ report = <<>>
  /\ writes = 0
  /\ error = "none"
  /\ run = "first"

Init == InitWith(CommandLines)

\* lines 58-61
Help ==
  /\ pc = "start" /\ showHelp
  /\ pc' = "exit"
  /\ report' = <<Line("help", "", NoDep)>>
  /\ UNCHANGED <<argv, workspaceFilePath, disk, pnpmWorkspacePath, doc, dependencies,
                 results, registry, writes, error, overtaken, run>>

Located ==
  IF workspaceFilePath # ""
    THEN IF exists(workspaceFilePath) THEN workspaceFilePath ELSE ""
    ELSE findPnpmWorkspaceFile

\* lines 93-114
Locate ==
  /\ pc = "start" /\ ~showHelp /\ Located # ""
  /\ pnpmWorkspacePath' = Located
  /\ pc' = "read"
  /\ UNCHANGED <<argv, workspaceFilePath, disk, doc, dependencies, results, registry,
                 report, writes, error, overtaken, run>>

\* lines 101-104 and 108-111: process.exit(1)
LocateFails ==
  /\ pc = "start" /\ ~showHelp /\ Located = ""
  /\ pc' = "exit"
  /\ error' = "ManifestNotFound"
  /\ UNCHANGED <<argv, workspaceFilePath, disk, pnpmWorkspacePath, doc, dependencies,
                 results, registry, report, writes, overtaken, run>>

\* lines 117-118 throwing into the catch of line 190
ReadFails ==
  /\ pc = "read" /\ disk.text.malformed
  /\ pc' = "caught"
  /\ error' = "ManifestParseError"
  /\ UNCHANGED <<argv, workspaceFilePath, disk, pnpmWorkspacePath, doc, dependencies,
                 results, registry, report, writes, overtaken, run>>

\* lines 117-137, up to the await of Promise.all
ReadAndDispatch ==
  /\ pc = "read" /\ ~disk.text.malformed
  /\ doc' = yamlLoad(disk.text)
  /\ dependencies' = catalogOf(yamlLoad(disk.text))
  /\ results' = Dispatch(catalogOf(yamlLoad(disk.text)))
  /\ pc' = "await"
  /\ UNCHANGED <<argv, workspaceFilePath, disk, pnpmWorkspacePath, registry, report,
                 writes, error, overtaken, run>>

Index(name) == CHOOSE k \in 1..Len(DepNames) : DepNames[k] = name

\* One request returns and its callback runs to the end (lines 129-134).  The
\* registry keeps its answer for a name: the same latest version, or none.
Responds(i, answer) ==
  /\ i \in 1..Len(results)
  /\ results[i].status = "pending"
  /\ LET n == Index(dependencies[i].name)
     IN  /\ registry[n] \in {<<>>, <<answer.latest>>}
         /\ registry' = [registry EXCEPT ![n] = <<answer.latest>>]
  /\ results' = StoreResult(results, i, Settle(dependencies[i], answer))
  /\ overtaken' = (overtaken \/ \E j \in 1..(i - 1) : results[j].status = "pending")
  /\ UNCHANGED <<argv, workspaceFilePath, disk, pc, pnpmWorkspacePath, doc,
                 dependencies, report, writes, error, run>>

\* lines 77, 82-83, 130-134
FetchOk(i) == \E v \in Latests : Responds(i, [kind |-> "ok", latest |-> v])

\* lines 78-81
FetchNotOk(i) == Responds(i, [kind |-> "notok", latest |-> <<>>])

\* lines 84-87
FetchError(i) == Responds(i, [kind |-> "error", latest |-> <<>>])

\* lines 137-184: from the return of Promise.all to the await of Bun.write
Report ==
  /\ pc = "await" /\ PromiseAllDone(results)
  /\ IF AnyRejected(results)
       THEN /\ pc' = "caught"
            /\ error' = "LookupRejected"
            /\ UNCHANGED <<doc, report, writes>>
       ELSE LET outdated == Outdated(results)
            IN  /\ report' = Printed(outdated)
                /\ error' = error
                /\ IF WritesManifest(outdated)
                     THEN /\ doc' = [doc EXCEPT !.catalog =
                                       ApplyUpdates(catalogOf(doc), toUpdate(outdated))]
                          /\ writes' = writes + 1
                          /\ pc' = "write"
                     ELSE /\ pc' = "done"
                          /\ UNCHANGED <<doc, writes>>
  /\ UNCHANGED <<argv, workspaceFilePath, disk, pnpmWorkspacePath, dependencies,
                 results, registry, overtaken, run>>

\* lines 184-185
WriteOk ==
  /\ pc = "write"
  /\ disk' = [path |-> pnpmWorkspacePath, text |-> yamlDump(doc)]
  /\ report' = Append(report, Line("updated", "", NoDep))
  /\ pc' = "done"
  /\ UNCHANGED <<argv, workspaceFilePath, pnpmWorkspacePath, doc, dependencies,
                 results, registry, writes, error, overtaken, run>>

\* Bun.write throwing into the catch of line 190
WriteFails ==
  /\ pc = "write"
  /\ pc' = "caught"
  /\ error' = "WriteFailure"
  /\ UNCHANGED <<argv, workspaceFilePath, disk, pnpmWorkspacePath, doc, dependencies,
                 results, registry, report, writes, overtaken, run>>

\* the same command line again on the manifest the run has written (line 195)
Rerun ==
  /\ pc = "done" /\ writes > 0 /\ run = "first"
  /\ run' = "second"
  /\ pc' = "start"
  /\ pnpmWorkspacePath' = ""
  /\ doc' = NoDoc
  /\ dependencies' = <<>>
  /\ results' = <<>>
  /\ report' = <<>>
  /\ writes' = 0
  /\ overtaken' = FALSE
  /\ UNCHANGED <<argv, workspaceFilePath, disk, registry, error>>

Next ==
  \/ Help
  \/ Locate
  \/ LocateFails
  \/ ReadFails
  \/ ReadAndDispatch
  \/ \E i \in 1..MaxDeps + 1 : FetchOk(i)
  \/ \E i \in 1..MaxDeps + 1 : FetchNotOk(i)
  \/ \E i \in 1..MaxDeps + 1 : FetchError(i)
  \/ Report
  \/ WriteOk
  \/ WriteFails

Spec == Init /\ [][Next]_vars

\* the runs that select what to update
InitFilter == InitWith(FilterCommandLines)

SpecFilter == InitFilter /\ [][Next]_vars

\* two runs in a row of `--update` without filter, the registry unchanged
InitTwice == InitWith({{"--update"}, {"--help"}})

NextTwice == Next \/ Rerun

SpecTwice == InitTwice /\ [][NextTwice]_vars

(***************************************************************************)
(* Properties                                                              *)
(***************************************************************************)
Deps == 1..Len(results)

\* a request for dependency k was made and has returned
Fetched(k) ==
  results[k].status # "pending" /\ registry[Index(dependencies[k].name)] # <<>>

\* the latest version the registry gave for dependency k, <<>> when it gave none
LatestFor(k) == registry[Index(dependencies[k].name)][1]

Unavailable(k) == Fetched(k) /\ LatestFor(k) = <<>>

IsOutdated(k) == results[k].value # <<>>

Info(k) == results[k].value[1]

\* the report has been printed
Reported == pc \in {"write", "done"} \/ (pc = "caught" /\ error = "WriteFailure")

\* the first run has written the manifest
Written == run = "first" /\ pc = "done" /\ writes = 1

Changed(k) == disk.text.catalog[k].version # dependencies[k].version

Filtered == argv \cap ReleaseFlags # {}

Requested(t) ==
  \/ t = "patch" /\ updatePatch
  \/ t = "minor" /\ updateMinor
  \/ t = "major" /\ updateMajor

EntryLines == {p \in 1..Len(report) : report[p].kind = "entry"}

\* C1: a failed lookup (non-success response or I/O error) yields null for
\* its own dependency only: no promise is rejected and the run is never
\* aborted by it, every other dependency's result is what the classifier
\* gives for the registry's answer, and the run goes on to the report and,
\* under --update with outdated entries, to the write.
C1_LookupFailureIsolated ==
  /\ error # "LookupRejected"
  /\ \A k \in Deps :
       /\ results[k].status # "rejected"
       /\ Unavailable(k) => results[k].value = <<>>
       /\ (Fetched(k) /\ LatestFor(k) # <<>>)
            => results[k].value
                 = Classify(dependencies[k].name, dependencies[k].version,
                            <<LatestFor(k)>>)
  /\ (pc = "await" /\ AllSettled(results)) => ENABLED Report
  /\ Reported =>
       /\ AllSettled(results)
       /\ report # <<>>
       /\ (shouldUpdate /\ Outdated(results) # <<>>) => writes = 1

C1_Witness ==
  /\ Written
  /\ \E k \in Deps : Unavailable(k)
  /\ \E j \in Deps : IsOutdated(j)
  /\ \E p \in EntryLines : TRUE

\* C2: with --update and at least one of --major/--minor/--patch, a catalog
\* value differs in the written manifest only if the entry is outdated with a
\* delta type that is exactly one of the requested types.
C2_FilterExact ==
  (Written /\ Filtered) =>
    /\ Len(disk.text.catalog) = Len(dependencies)
    /\ \A k \in Deps : Changed(k) => (IsOutdated(k) /\ Requested(Info(k).type))

C2_Witness ==
  /\ Written
  /\ argv = {"--update", "--minor"}
  /\ \E k \in Deps : Changed(k) /\ Info(k).type = "minor"
  /\ \E j \in Deps : IsOutdated(j) /\ Info(j).type = "major" /\ ~Changed(j)

\* the leading characters of a range that are no digits: "^", "~", ""
RangePrefix(s) ==
  IF \E k \in 1..Len(s) : s[k] \in Digits
    THEN SubSeq(s, 1, (CHOOSE k \in 1..Len(s) :
                         /\ s[k] \in Digits
                         /\ \A j \in 1..(k - 1) : s[j] \notin Digits) - 1)
    ELSE s

\* C3 (as claimed): every rewritten entry holds its latest version behind the
\* prefix its old value had (`^`, none, or another such as `~`), and after an
\* unfiltered update every outdated entry has been rewritten so.
C3_PrefixStylePreserved ==
  Written =>
    \A k \in Deps :
      (IsOutdated(k) /\ (Changed(k) \/ ~Filtered))
        => disk.text.catalog[k].version
             = RangePrefix(dependencies[k].version) \o Info(k).latest

\* C4 (as claimed): every outdated entry is printed in the report as exactly
\* one `name: current -> latest` line, whatever its delta type.
C4_EveryOutdatedReported ==
  Reported =>
    \A k \in Deps :
      IsOutdated(k) =>
        Cardinality({p \in EntryLines :
                       /\ report[p].name = Info(k).name
                       /\ report[p].current = Info(k).current
                       /\ report[p].latest = Info(k).latest}) = 1

\* C5: a run writes the manifest at most once, and only under --update with
\* a non-empty outdated set; without --update (with or without filters), with
\* everything up to date, with no manifest or an unparsable one, and with help
\* requested, nothing is written.
C5_WriteOnlyWhenUpdating ==
  /\ writes <= 1
  /\ pc = "write" => writes = 1
  /\ writes > 0 =>
       /\ shouldUpdate /\ ~showHelp
       /\ AllSettled(results) /\ Outdated(results) # <<>>
  /\ ( \/ ~shouldUpdate
       \/ showHelp
       \/ error \in {"ManifestNotFound", "ManifestParseError"}
       \/ (Reported /\ Outdated(results) = <<>>) ) => writes = 0

C5_Witness ==
  /\ pc = "done" /\ writes = 1
  /\ shouldUpdate /\ Outdated(results) # <<>>
  /\ disk.text.catalog # dependencies

\* C6: nothing of the report is printed and no write is started before every
\* dispatched lookup has completed.
C6_Barrier ==
  (pc \in {"write", "done"} \/ writes > 0 \/ (report # <<>> /\ ~showHelp)) =>
    /\ Len(results) = Len(dependencies)
    /\ AllSettled(results)

C6_Witness ==
  /\ pc = "done" /\ writes = 1 /\ overtaken
  /\ \E k \in Deps : \E j \in Deps : k # j /\ Fetched(k) /\ Fetched(j)
  /\ EntryLines # {}

Rank(bucket) ==
  CASE bucket = "major" -> 1 [] bucket = "minor" -> 2 [] bucket = "patch" -> 3
    [] OTHER -> 4

DepIndex(name) == CHOOSE k \in 1..Len(dependencies) : dependencies[k].name = name

\* C7: in whatever order the lookups complete, the report lists the buckets
\* in the order major, minor, patch, others, and the entries of one bucket in
\* catalog order.
C7_ReportOrder ==
  \A p \in EntryLines : \A q \in EntryLines :
    p < q =>
      \/ Rank(report[p].bucket) < Rank(report[q].bucket)
      \/ /\ report[p].bucket = report[q].bucket
         /\ DepIndex(report[p].name) < DepIndex(report[q].name)

C7_Witness ==
  /\ pc = "done" /\ overtaken
  /\ \E p \in EntryLines : \E q \in EntryLines :
       p < q /\ report[p].bucket = report[q].bucket

\* C8: after an unfiltered --update run whose write succeeded, a second run
\* on the written manifest with the registry unchanged finds nothing
\* outdated: it reports all up to date and writes nothing.
C8_SecondRunUpToDate ==
  run = "second" =>
    /\ \A k \in Deps : ~IsOutdated(k)
    /\ writes = 0 /\ pc # "write"
    /\ pc = "done" => report = <<Line("uptodate", "", NoDep)>>

C8_Witness ==
  /\ run = "second" /\ pc = "done"
  /\ \E k \in Deps :
       Fetched(k) /\ LatestFor(k) # <<>> /\ startsWith(dependencies[k].version, "^")
  /\ \E j \in Deps :
       Fetched(j) /\ LatestFor(j) # <<>> /\ ~startsWith(dependencies[j].version, "^")

Names(catalog) == {catalog[k].name : k \in 1..Len(catalog)}

\* C9: the written catalog has exactly the names of the catalog read, each
\* once; the updater only replaces values.
C9_NamesPreserved ==
  /\ pc = "write" =>
       /\ Names(doc.catalog) = Names(dependencies)
       /\ Len(doc.catalog) = Len(dependencies)
  /\ Written =>
       /\ Names(disk.text.catalog) = Names(dependencies)
       /\ Len(disk.text.catalog) = Len(dependencies)

C9_Witness ==
  /\ Written
  /\ \E k \in Deps : Changed(k)
  /\ \E j \in Deps : ~Changed(j)

\* a pre-release version, bare or behind the range prefix `^` or `~`
IsPrereleaseRange(v) ==
  /\ v # Null
  /\ \/ prerelease(v)
     \/ /\ Len(v) > 0 /\ v[1] \in {"^", "~"}
        /\ prerelease(Tail(v))

\* C10 (as claimed): an entry whose current value is a pre-release version,
\* with or without a range prefix, is never in the outdated set.
C10_PrereleaseExcluded ==
  \A k \in Deps : IsPrereleaseRange(dependencies[k].version) => ~IsOutdated(k)

====
